---------------------------- MODULE Spec2Model ----------------------------
(***************************************************************************)
(* A model of the wpdsp filter engine: the coefficient designer            *)
(* (AudioFilter) and the recurrence evaluator (Biquad).                    *)
(*                                                                         *)
(* Numbers.  The source computes in double.  The model carries every       *)
(* dimensionless double (coefficients, samples, Q, gain in dB, angles in   *)
(* radians, wet/dry) as an integer count of 1/One, and every frequency as  *)
(* a whole number of Hz.  A product or quotient is rounded to the nearest  *)
(* 1/One, as a double operation rounds to the nearest representable value. *)
(* sin, cos, tan and exp are evaluated by range reduction and a Taylor     *)
(* polynomial in the same arithmetic.                                      *)
(***************************************************************************)
EXTENDS Integers, Sequences, FiniteSets, TLC

VARIABLES leftFilter, op, out, recalcs, nProcessed, untouched, designedFor,
          biquads, fed, got,
          rightFilter, lastAlgorithm, host, nFrames

\* the engine and what is recorded of its calls
engineVars == <<leftFilter, op, out, recalcs, nProcessed, untouched, designedFor>>

\* the Biquads driven without an engine, and what is recorded of their run
benchVars == <<biquads, fed, got>>

\* the rest of the plug-in around leftFilter, and what is recorded of the
\* host's calls
pluginVars == <<rightFilter, lastAlgorithm, host, nFrames>>

vars == <<engineVars, benchVars, pluginVars>>

\* what a caller of the engine alone leaves as it is
outsideEngine == <<benchVars, pluginVars>>

\* what a caller of the Biquads alone leaves as it is
outsideBench == <<engineVars, pluginVars>>

-----------------------------------------------------------------------------
(* Bounds of the model *)

\* the number of samples pushed through the engine between two clearings of
\* its delay registers
MaxSamples == 2

\* the number of samples pushed through a Biquad driven directly between two
\* clearings of its delay registers
MaxFed == 3

\* the number of sample frames the host hands the plug-in between two calls of
\* prepareToPlay
MaxFrames == 2

\* the number of times a designer is handed another algorithm and a sample
MaxRedesigns == 1

-----------------------------------------------------------------------------
(* Arithmetic *)

\* 1.0
One == 1000

\* a / b, rounded to the nearest integer, for either sign of b
Div(a, b) ==
    IF b < 0 THEN (-2 * a - b) \div (-2 * b) ELSE (2 * a + b) \div (2 * b)

\* the product of two doubles
Mul(a, b) == Div(a * b, One)

\* the quotient of two doubles
Quot(a, b) == Div(a * One, b)

\* the conversion of a double to an array index: truncation toward zero
Trunc(a) == IF a >= 0 THEN a \div One ELSE -((-a) \div One)

M_PI == 3142

HalfPi == M_PI \div 2

\* x (1 - xx/6 (1 - xx/20 (1 - xx/42))), where xx = x * x
SinSeries(x, xx) ==
    Mul(x, One - Mul(Div(xx, 6), One - Mul(Div(xx, 20), One - Div(xx, 42))))

\* sin on [-pi/2, pi/2]: x - x^3/3! + x^5/5! - x^7/7!
SinPoly(x) == SinSeries(x, Mul(x, x))

\* r in (-2 pi, 2 pi) brought into [-pi, pi] by sin(r) = sin(r -+ 2 pi)
WrapPi(r) ==
    IF r > M_PI THEN r - 2 * M_PI ELSE IF r < -M_PI THEN r + 2 * M_PI ELSE r

\* r in [-pi, pi] brought into [-pi/2, pi/2] by sin(r) = sin(+-pi - r)
FoldHalfPi(r) ==
    IF r > HalfPi THEN M_PI - r ELSE IF r < -HalfPi THEN -M_PI - r ELSE r

sin(x) == SinPoly(FoldHalfPi(WrapPi(x % (2 * M_PI))))

cos(x) == sin(x + HalfPi)

\* tan(x) = sin(x) / cos(x)
tan(x) == Quot(sin(x), cos(x))

\* 1 + x (1 + x/2 (1 + x/3 (1 + x/4)))
ExpPoly(x) ==
    One + Mul(x, One + Mul(Div(x, 2), One + Mul(Div(x, 3), One + Div(x, 4))))

\* exp(x) = exp(x/2) * exp(x - x/2) outside [-1/2, 1/2]
RECURSIVE exp(_)
exp(x) ==
    IF x > One \div 2 \/ x < -(One \div 2)
    THEN Mul(exp(x \div 2), exp(x - (x \div 2)))
    ELSE ExpPoly(x)

\* ln 10
Ln10 == 2303

\* pow(10.0, x)
pow10(x) == exp(Mul(x, Ln10))

-----------------------------------------------------------------------------
(* Biquad.h: the coefficient and register arrays *)

\* enum FilterCoeff
a0 == 0
a1 == 1
a2 == 2
b1 == 3
b2 == 4
c0 == 5
d0 == 6
numCoeffs == 7

\* enum StateReg
x_z1 == 0
x_z2 == 1
y_z1 == 2
y_z2 == 3
numStates == 4

\* enum class BiquadAlgorithm
BiquadAlgorithm == {"kDirect", "kCanonical", "kTransposeDirect", "kTransposeCanonical"}

\* std::array<double, N>{} : N zeros
ZeroArray(n) == [i \in 0 .. n - 1 |-> 0]

\* a default-constructed Biquad
NewBiquad ==
    [ m_coefficients    |-> ZeroArray(numCoeffs),
      m_state           |-> ZeroArray(numStates),
      m_biquadAlgorithm |-> "kDirect" ]

\* a reset that cleared the input registers only
BiquadResetInputsOnly(b) == [b EXCEPT !.m_state[x_z1] = 0, !.m_state[x_z2] = 0]

\* Biquad::reset
BiquadReset(b) == [b EXCEPT !.m_state = ZeroArray(numStates)]

\* a setCoefficients that also cleared the registers
BiquadSetCoefficientsClearing(b, coefficients) ==
    [b EXCEPT !.m_coefficients = coefficients, !.m_state = ZeroArray(numStates)]

\* Biquad::setCoefficients
BiquadSetCoefficients(b, coefficients) == [b EXCEPT !.m_coefficients = coefficients]

\* Biquad::setAlgorithm
BiquadSetAlgorithm(b, newAlgo) == [b EXCEPT !.m_biquadAlgorithm = newAlgo]

\* what a read outside m_state may return
OutOfBoundsReads == {0, One}

\* s[yn]: yn converted to an index of the register array.  An index outside
\* the array, or a yn whose truncation is negative, is undefined behaviour.
ReadAt(s, yn) ==
    IF Trunc(yn) \in 0 .. numStates - 1 THEN {s[Trunc(yn)]} ELSE OutOfBoundsReads

\* the kDirect branch of Biquad::processAudioSample
ProcessDirect(b, sample) ==
    LET c  == b.m_coefficients
        s  == b.m_state
        yn == Mul(c[a0], sample) + Mul(c[a1], s[x_z1]) + Mul(c[a2], s[x_z2])
              - Mul(c[b1], s[y_z1]) - Mul(c[b2], s[y_z2])
        s1 == [s  EXCEPT ![x_z2] = s[x_z1]]
        s2 == [s1 EXCEPT ![x_z1] = sample]
        s3 == [s2 EXCEPT ![y_z2] = s2[y_z1]]
    IN  { [biquad |-> [b EXCEPT !.m_state = [s3 EXCEPT ![y_z1] = v]], yn |-> yn]
          : v \in ReadAt(s3, yn) }

\* a kCanonical branch that shifted the registers in the other order
ProcessCanonicalShiftingLate(b, sample) ==
    LET c  == b.m_coefficients
        s  == b.m_state
        wn == sample - Mul(c[b1], s[x_z1]) - Mul(c[b2], s[x_z2])
        yn == Mul(c[a0], wn) + Mul(c[a1], s[x_z1]) + Mul(c[a2], s[x_z2])
        s1 == [s  EXCEPT ![x_z1] = wn]
        s2 == [s1 EXCEPT ![x_z2] = s1[x_z1]]
    IN  { [biquad |-> [b EXCEPT !.m_state = s2], yn |-> yn] }

\* the kCanonical branch
ProcessCanonical(b, sample) ==
    LET c  == b.m_coefficients
        s  == b.m_state
        wn == sample - Mul(c[b1], s[x_z1]) - Mul(c[b2], s[x_z2])
        yn == Mul(c[a0], wn) + Mul(c[a1], s[x_z1]) + Mul(c[a2], s[x_z2])
        s1 == [s  EXCEPT ![x_z2] = s[x_z1]]
        s2 == [s1 EXCEPT ![x_z1] = wn]
    IN  { [biquad |-> [b EXCEPT !.m_state = s2], yn |-> yn] }

\* the kTransposeDirect branch
ProcessTransposeDirect(b, sample) ==
    LET c  == b.m_coefficients
        s  == b.m_state
        wn == sample + s[x_z1]
        yn == Mul(c[a0], wn) + s[y_z1]
        s1 == [s  EXCEPT ![x_z1] = Mul(c[a1], wn) - Mul(c[b1], yn) + s[x_z2]]
        s2 == [s1 EXCEPT ![x_z2] = Mul(c[a2], wn) - Mul(c[b2], yn)]
    IN  { [biquad |-> [b EXCEPT !.m_state = s2], yn |-> yn] }

\* the kTransposeCanonical branch
ProcessTransposeCanonical(b, sample) ==
    LET c  == b.m_coefficients
        s  == b.m_state
        yn == Mul(c[a0], sample) + s[x_z1]
        s1 == [s  EXCEPT ![x_z1] = Mul(c[a1], sample) - Mul(c[b1], yn) + s[x_z2]]
        s2 == [s1 EXCEPT ![x_z2] = Mul(c[a2], sample) - Mul(c[b2], yn)]
    IN  { [biquad |-> [b EXCEPT !.m_state = s2], yn |-> yn] }

\* Biquad::processAudioSample: the set of (biquad afterwards, value returned)
BiquadProcessAudioSample(b, sample) ==
    CASE b.m_biquadAlgorithm = "kDirect"             -> ProcessDirect(b, sample)
      [] b.m_biquadAlgorithm = "kCanonical"          -> ProcessCanonical(b, sample)
      [] b.m_biquadAlgorithm = "kTransposeDirect"    -> ProcessTransposeDirect(b, sample)
      [] b.m_biquadAlgorithm = "kTransposeCanonical" -> ProcessTransposeCanonical(b, sample)
      [] OTHER -> { [biquad |-> b, yn |-> sample] }

-----------------------------------------------------------------------------
(* AudioFilter.h: the design algorithms and the designer's members *)

\* enum class FilterAlgorithm, by enumerator value
kLPF1P == 0
kLPF1 == 1
kHPF1 == 2
kLPF2 == 3
kHPF2 == 4
kBPF2 == 5
kBSF2 == 6
kButterLPF2 == 7
kButterHPF2 == 8
kButterBPF2 == 9
kButterBSF2 == 10
kMMALPF2 == 11
kMMALPF2B == 12
kLowShelf == 13
kHiShelf == 14
kNCQParaEQ == 15
kCQParaEQ == 16
kLWRLPF2 == 17
kLWRHPF2 == 18
kAPF1 == 19
kAPF2 == 20
kResonA == 21
kResonB == 22
kMatchLP2A == 23
kMatchLP2B == 24
kMatchBP2A == 25
kMatchBP2B == 26
kImpInvLP1 == 27
kImpInvLP2 == 28

\* the selector values that name an enumerator
FilterAlgorithm == kLPF1P .. kImpInvLP2

\* const double kSqrtTwo = pow(2.0, 0.5)
kSqrtTwo == 1414

\* the member initialisers of AudioFilter
DefaultSampleRate == 44100
DefaultFreqCutoff == 1000
DefaultQ == 707
DefaultGainDb == 0
DefaultWet == 1000
DefaultDry == 0

\* the value setQ substitutes for a Q that is not positive
SubstituteQ == 707

\* 0.95*M_PI / 2.0
ClampAngle == Div(Mul(950, M_PI), 2)

\* biquadCoeffs after fill(0.0) and the five assignments of a case
Coeffs(A0, A1, A2, B1, B2) ==
    [i \in 0 .. numCoeffs - 1 |->
        CASE i = a0 -> A0 [] i = a1 -> A1 [] i = a2 -> A2
          [] i = b1 -> B1 [] i = b2 -> B2 [] OTHER -> 0]

\* what a case of the switch leaves: the coefficients and the wet/dry pair
Design(c, wet, dry) == [coeffs |-> c, wet |-> wet, dry |-> dry]

\* biquadCoeffs.fill(0.0); biquadCoeffs[a0] = 1.0; m_wet = 1.0; m_dry = 0.0
PassThrough == Design(Coeffs(One, 0, 0, 0, 0), One, 0)

\* theta_c = 2.0*M_PI*m_freqCutoff / m_sampleRate
ThetaC(fc, fs) == Div(2 * M_PI * fc, fs)

\* M_PI*m_freqCutoff / m_sampleRate
HalfThetaC(fc, fs) == Div(M_PI * fc, fs)

\* BW = m_freqCutoff / m_Q (Hz)
BandWidth(fc, Q) == Div(fc * One, Q)

\* case kImpInvLP1
DesignImpInvLP1(fc, fs) ==
    LET eT == exp(-ThetaC(fc, fs))
    IN  Design(Coeffs(One - eT, 0, 0, -eT, 0), One, 0)

\* case kLPF1
DesignLPF1(fc, fs) ==
    LET theta_c == ThetaC(fc, fs)
        gamma   == Quot(cos(theta_c), One + sin(theta_c))
    IN  Design(Coeffs(Div(One - gamma, 2), Div(One - gamma, 2), 0, -gamma, 0), One, 0)

\* case kHPF1
DesignHPF1(fc, fs) ==
    LET theta_c == ThetaC(fc, fs)
        gamma   == Quot(cos(theta_c), One + sin(theta_c))
    IN  Design(Coeffs(Div(One + gamma, 2), -Div(One + gamma, 2), 0, -gamma, 0), One, 0)

\* case kLPF2
DesignLPF2(fc, Q, fs) ==
    LET theta_c == ThetaC(fc, fs)
        d       == Quot(One, Q)
        betaNumerator   == One - Mul(Div(d, 2), sin(theta_c))
        betaDenominator == One + Mul(Div(d, 2), sin(theta_c))
        beta    == Div(Quot(betaNumerator, betaDenominator), 2)
        gamma   == Mul(One \div 2 + beta, cos(theta_c))
        alpha   == Div(One \div 2 + beta - gamma, 2)
    IN  Design(Coeffs(alpha, 2 * alpha, alpha, -2 * gamma, 2 * beta), One, 0)

\* case kHPF2
DesignHPF2(fc, Q, fs) ==
    LET theta_c == ThetaC(fc, fs)
        d       == Quot(One, Q)
        betaNumerator   == One - Mul(Div(d, 2), sin(theta_c))
        betaDenominator == One + Mul(Div(d, 2), sin(theta_c))
        beta    == Div(Quot(betaNumerator, betaDenominator), 2)
        gamma   == Mul(One \div 2 + beta, cos(theta_c))
        alpha   == Div(One \div 2 + beta + gamma, 2)
    IN  Design(Coeffs(alpha, -2 * alpha, alpha, -2 * gamma, 2 * beta), One, 0)

\* case kBPF2
DesignBPF2(fc, Q, fs) ==
    LET K     == tan(HalfThetaC(fc, fs))
        KK    == Mul(K, K)
        delta == Mul(KK, Q) + K + Q
    IN  Design(Coeffs(Quot(K, delta), 0, -Quot(K, delta),
                      Quot(2 * Mul(Q, KK - One), delta),
                      Quot(Mul(KK, Q) - K + Q, delta)), One, 0)

\* case kBSF2
DesignBSF2(fc, Q, fs) ==
    LET K     == tan(HalfThetaC(fc, fs))
        KK    == Mul(K, K)
        delta == Mul(KK, Q) + K + Q
    IN  Design(Coeffs(Quot(Mul(Q, One + KK), delta),
                      Quot(2 * Mul(Q, KK - One), delta),
                      Quot(Mul(Q, One + KK), delta),
                      Quot(2 * Mul(Q, KK - One), delta),
                      Quot(Mul(KK, Q) - K + Q, delta)), One, 0)

\* case kButterLPF2
DesignButterLPF2(fc, fs) ==
    LET theta_c == HalfThetaC(fc, fs)
        C       == Quot(One, tan(theta_c))
        CC      == Mul(C, C)
        A0      == Quot(One, One + Mul(kSqrtTwo, C) + CC)
    IN  Design(Coeffs(A0, 2 * A0, A0, 2 * Mul(A0, One - CC),
                      Mul(A0, One - Mul(kSqrtTwo, C) + CC)), One, 0)

\* case kButterHPF2
DesignButterHPF2(fc, fs) ==
    LET theta_c == HalfThetaC(fc, fs)
        C       == tan(theta_c)
        CC      == Mul(C, C)
        A0      == Quot(One, One + Mul(kSqrtTwo, C) + CC)
    IN  Design(Coeffs(A0, -2 * A0, A0, 2 * Mul(A0, CC - One),
                      Mul(A0, One - Mul(kSqrtTwo, C) + CC)), One, 0)

\* delta_c / argTan = M_PI*BW / m_sampleRate, clamped to 0.95*M_PI/2
ClampedBandAngle(fc, Q, fs) ==
    LET delta_c == Div(M_PI * BandWidth(fc, Q), fs)
    IN  IF delta_c >= ClampAngle THEN ClampAngle ELSE delta_c

\* case kButterBPF2
DesignButterBPF2(fc, Q, fs) ==
    LET theta_c == ThetaC(fc, fs)
        C       == Quot(One, tan(ClampedBandAngle(fc, Q, fs)))
        D       == 2 * cos(theta_c)
        A0      == Quot(One, One + C)
    IN  Design(Coeffs(A0, 0, -A0, -Mul(A0, Mul(C, D)), Mul(A0, C - One)), One, 0)

\* case kButterBSF2
DesignButterBSF2(fc, Q, fs) ==
    LET theta_c == ThetaC(fc, fs)
        C       == tan(ClampedBandAngle(fc, Q, fs))
        D       == 2 * cos(theta_c)
        A0      == Quot(One, One + C)
    IN  Design(Coeffs(A0, -Mul(A0, D), A0, -Mul(A0, D), Mul(A0, One - C)), One, 0)

\* mu = pow(10.0, m_gainDb / 20.0)
GainLinear(gainDb) == pow10(Div(gainDb, 20))

\* case kLowShelf
DesignLowShelf(fc, gainDb, fs) ==
    LET theta_c == ThetaC(fc, fs)
        mu      == GainLinear(gainDb)
        beta    == Quot(4 * One, One + mu)
        delta   == Mul(beta, tan(Div(theta_c, 2)))
        gamma   == Quot(One - delta, One + delta)
    IN  Design(Coeffs(Div(One - gamma, 2), Div(One - gamma, 2), 0, -gamma, 0),
               mu - One, One)

\* case kHiShelf
DesignHiShelf(fc, gainDb, fs) ==
    LET theta_c == ThetaC(fc, fs)
        mu      == GainLinear(gainDb)
        beta    == Div(One + mu, 4)
        delta   == Mul(beta, tan(Div(theta_c, 2)))
        gamma   == Quot(One - delta, One + delta)
        A0      == Div(One + gamma, 2)
    IN  Design(Coeffs(A0, -A0, 0, -gamma, 0), mu - One, One)

\* case kCQParaEQ
DesignCQParaEQ(fc, Q, gainDb, fs) ==
    LET K      == tan(HalfThetaC(fc, fs))
        KK     == Mul(K, K)
        Vo     == GainLinear(gainDb)
        bBoost == gainDb >= 0
        dd0    == One + Mul(Quot(One, Q), K) + KK
        e0     == One + Mul(Quot(One, Mul(Vo, Q)), K) + KK
        alpha  == One + Mul(Quot(Vo, Q), K) + KK
        beta   == 2 * (KK - One)
        gamma  == One - Mul(Quot(Vo, Q), K) + KK
        delta  == One - Mul(Quot(One, Q), K) + KK
        eta    == One - Mul(Quot(One, Mul(Vo, Q)), K) + KK
    IN  Design(Coeffs(IF bBoost THEN Quot(alpha, dd0) ELSE Quot(dd0, e0),
                      IF bBoost THEN Quot(beta, dd0)  ELSE Quot(beta, e0),
                      IF bBoost THEN Quot(gamma, dd0) ELSE Quot(delta, e0),
                      IF bBoost THEN Quot(beta, dd0)  ELSE Quot(beta, e0),
                      IF bBoost THEN Quot(delta, dd0) ELSE Quot(eta, e0)), One, 0)

\* case kNCQParaEQ
DesignNCQParaEQ(fc, Q, gainDb, fs) ==
    LET theta_c == ThetaC(fc, fs)
        mu      == GainLinear(gainDb)
        raw     == Quot(theta_c, 2 * Q)
        tanArg  == IF raw >= ClampAngle THEN ClampAngle ELSE raw
        zeta    == Quot(4 * One, One + mu)
        betaNumerator   == One - Mul(zeta, tan(tanArg))
        betaDenominator == One + Mul(zeta, tan(tanArg))
        beta    == Div(Quot(betaNumerator, betaDenominator), 2)
        gamma   == Mul(One \div 2 + beta, cos(theta_c))
        alpha   == One \div 2 - beta
    IN  Design(Coeffs(alpha, 0, -alpha, -2 * gamma, 2 * beta), mu - One, One)

\* case kAPF1
DesignAPF1(fc, fs) ==
    LET alphaNumerator   == tan(HalfThetaC(fc, fs)) - One
        alphaDenominator == tan(HalfThetaC(fc, fs)) + One
        alpha            == Quot(alphaNumerator, alphaDenominator)
    IN  Design(Coeffs(alpha, One, 0, alpha, 0), One, 0)

\* case kAPF2
DesignAPF2(fc, Q, fs) ==
    LET theta_c == ThetaC(fc, fs)
        argTan  == ClampedBandAngle(fc, Q, fs)
        alphaNumerator   == tan(argTan) - One
        alphaDenominator == tan(argTan) + One
        alpha   == Quot(alphaNumerator, alphaDenominator)
        beta    == -cos(theta_c)
    IN  Design(Coeffs(-alpha, Mul(beta, One - alpha), One,
                      Mul(beta, One - alpha), -alpha), One, 0)

\* a switch whose default fell into the kLPF1 case
DesignDefaultingToLPF1(alg, fc, Q, gainDb, fs) ==
    IF alg = kNCQParaEQ THEN DesignNCQParaEQ(fc, Q, gainDb, fs)
    ELSE DesignLPF1(fc, fs)

\* the switch of recalculateCoefficients.  The cases that take a square root,
\* a logarithm or a hyperbolic cosine, and the Linkwitz-Riley cases (whose
\* intermediate k*k exceeds the model's integers) have no arm here: the model
\* never selects them.
DesignCoefficients(alg, fc, Q, gainDb, fs) ==
    CASE alg = kImpInvLP1  -> DesignImpInvLP1(fc, fs)
      [] alg = kLPF1       -> DesignLPF1(fc, fs)
      [] alg = kHPF1       -> DesignHPF1(fc, fs)
      [] alg = kLPF2       -> DesignLPF2(fc, Q, fs)
      [] alg = kHPF2       -> DesignHPF2(fc, Q, fs)
      [] alg = kBPF2       -> DesignBPF2(fc, Q, fs)
      [] alg = kBSF2       -> DesignBSF2(fc, Q, fs)
      [] alg = kButterLPF2 -> DesignButterLPF2(fc, fs)
      [] alg = kButterHPF2 -> DesignButterHPF2(fc, fs)
      [] alg = kButterBPF2 -> DesignButterBPF2(fc, Q, fs)
      [] alg = kButterBSF2 -> DesignButterBSF2(fc, Q, fs)
      [] alg = kLowShelf   -> DesignLowShelf(fc, gainDb, fs)
      [] alg = kHiShelf    -> DesignHiShelf(fc, gainDb, fs)
      [] alg = kCQParaEQ   -> DesignCQParaEQ(fc, Q, gainDb, fs)
      [] alg = kNCQParaEQ  -> DesignNCQParaEQ(fc, Q, gainDb, fs)
      [] alg = kAPF1       -> DesignAPF1(fc, fs)
      [] alg = kAPF2       -> DesignAPF2(fc, Q, fs)
      [] alg \notin FilterAlgorithm -> PassThrough

-----------------------------------------------------------------------------
(* The arguments the callers pass *)

\* an algorithm that reads the cutoff, Q and the gain and sets a wet/dry pair
\* of its own, and a selector past the last enumerator (kLPF1 is the
\* constructor's)
Selectors == {kNCQParaEQ, kImpInvLP2 + 1}

SampleRates == {0, 48000}

Cutoffs == {DefaultFreqCutoff, 8000}

QArguments == {-One, 0, 2 * One}

Gains == {DefaultGainDb, 6 * One}

\* a sample whose output indexes inside the register array in the pass-through
\* case, and one whose output does not
Samples == {One, -2 * One}

\* the algorithms whose case of the switch has an arm in DesignCoefficients
ModelledAlgorithms ==
    { kImpInvLP1, kLPF1, kHPF1, kLPF2, kHPF2, kBPF2, kBSF2, kButterLPF2,
      kButterHPF2, kButterBPF2, kButterBSF2, kLowShelf, kHiShelf, kCQParaEQ,
      kNCQParaEQ, kAPF1, kAPF2 }

\* the requests a designer is put to: every modelled algorithm and a selector
\* past the last enumerator, a cutoff below half the sample rate and one
\* above it, with and without gain
DesignSelectors == ModelledAlgorithms \cup {kImpInvLP2 + 1}

DesignCutoffs == {DefaultFreqCutoff, 20000}

DesignQs == {DefaultQ, 2 * One}

DesignGains == {DefaultGainDb, 6 * One}

DesignSampleRates == {32000, 48000}

\* the switch, tabulated over the values the members can hold: what
\* recalculateCoefficients computes for each
Designed ==
    [ alg    \in Selectors \cup DesignSelectors,
      fc     \in Cutoffs \cup {DefaultFreqCutoff} \cup DesignCutoffs,
      Q      \in {q \in QArguments : q > 0} \cup {DefaultQ, SubstituteQ} \cup DesignQs,
      gainDb \in Gains \cup {DefaultGainDb} \cup DesignGains,
      fs     \in {r \in SampleRates : r > 0} \cup {DefaultSampleRate}
                 \cup DesignSampleRates
      |-> DesignCoefficients(alg, fc, Q, gainDb, fs) ]

-----------------------------------------------------------------------------
(* AudioFilter: construction and the operations of AudioFilter.cpp *)

\* AudioFilter() = default.  m_coefficientsChanged is used by AudioFilter.cpp
\* and has no initialiser in AudioFilter.h: it starts as either value.
NewAudioFilter(changed) ==
    [ biquad                |-> NewBiquad,
      m_filterAlgorithm     |-> kLPF1,
      m_sampleRate          |-> DefaultSampleRate,
      m_freqCutoff          |-> DefaultFreqCutoff,
      m_Q                   |-> DefaultQ,
      m_gainDb              |-> DefaultGainDb,
      m_wet                 |-> DefaultWet,
      m_dry                 |-> DefaultDry,
      m_coefficientsChanged |-> changed ]

\* a recalculateCoefficients that left m_wet and m_dry as they were
InstallCoefficientsOnly(f, d) ==
    [f EXCEPT !.biquad = BiquadSetCoefficients(f.biquad, d.coeffs)]

\* the tail of recalculateCoefficients: m_wet and m_dry as the case left
\* them, and biquad.setCoefficients(biquadCoeffs)
Install(f, d) ==
    [f EXCEPT !.m_wet = d.wet, !.m_dry = d.dry,
              !.biquad = BiquadSetCoefficients(f.biquad, d.coeffs)]

\* AudioFilter::recalculateCoefficients
recalculateCoefficients(f) ==
    IF f.m_sampleRate <= 0 THEN f
    ELSE Install(f, Designed[f.m_filterAlgorithm, f.m_freqCutoff, f.m_Q,
                             f.m_gainDb, f.m_sampleRate])

\* a prepare that left the recomputation to the next sample
prepareDeferring(f, sampleRate) ==
    [f EXCEPT !.m_sampleRate = sampleRate, !.biquad = BiquadReset(f.biquad),
              !.m_coefficientsChanged = TRUE]

\* AudioFilter::prepare
prepare(f, sampleRate) ==
    recalculateCoefficients([f EXCEPT !.m_sampleRate = sampleRate,
                                      !.biquad = BiquadReset(f.biquad)])

\* a reset that put back the whole Biquad as constructed
resetWholeBiquad(f) == [f EXCEPT !.biquad = NewBiquad]

\* AudioFilter::reset
reset(f) == [f EXCEPT !.biquad = BiquadReset(f.biquad)]

\* the head of AudioFilter::processAudioSample: the recomputation it owes
RefreshIfChanged(f) ==
    IF f.m_coefficientsChanged
    THEN [recalculateCoefficients(f) EXCEPT !.m_coefficientsChanged = FALSE]
    ELSE f

\* the return statement of AudioFilter::processAudioSample
Mix(f, sample) ==
    { [filter |-> [f EXCEPT !.biquad = r.biquad],
       y      |-> Mul(f.m_dry, sample) + Mul(f.m_wet, r.yn)]
      : r \in BiquadProcessAudioSample(f.biquad, sample) }

\* AudioFilter::processAudioSample: the set of (filter afterwards, value returned)
processAudioSample(f, sample) == Mix(RefreshIfChanged(f), sample)

\* AudioFilter::setAlgorithm of AudioFilter.cpp
setAlgorithm(f, newAlgorithm) ==
    [f EXCEPT !.m_filterAlgorithm = newAlgorithm, !.m_coefficientsChanged = TRUE]

\* AudioFilter::setCutoff
setCutoff(f, newCutoff) ==
    [f EXCEPT !.m_freqCutoff = newCutoff, !.m_coefficientsChanged = TRUE]

\* a setQ that stored whatever it was handed
setQUnclamped(f, newQ) ==
    [f EXCEPT !.m_Q = newQ, !.m_coefficientsChanged = TRUE]

\* AudioFilter::setQ of AudioFilter.cpp
setQ(f, newQ) ==
    [f EXCEPT !.m_Q = IF newQ > 0 THEN newQ ELSE SubstituteQ,
              !.m_coefficientsChanged = TRUE]

\* AudioFilter::setGainDb
setGainDb(f, newGainDb) ==
    [f EXCEPT !.m_gainDb = newGainDb, !.m_coefficientsChanged = TRUE]

(* The inline setters of AudioFilter.h *)

\* AudioFilter::setAlgorithm of AudioFilter.h
setAlgorithmInline(f, newAlgorithm) ==
    recalculateCoefficients([f EXCEPT !.m_filterAlgorithm = newAlgorithm])

\* AudioFilter::setCutoffFrequency
setCutoffFrequency(f, newFreq) ==
    recalculateCoefficients([f EXCEPT !.m_freqCutoff = newFreq])

\* AudioFilter::setQ of AudioFilter.h
setQInline(f, newQ) ==
    recalculateCoefficients(IF newQ <= 0 THEN [f EXCEPT !.m_Q = SubstituteQ] ELSE f)

\* AudioFilter::setGain
setGain(f, newGainDb) ==
    recalculateCoefficients([f EXCEPT !.m_gainDb = newGainDb])

-----------------------------------------------------------------------------
(* The engine as its callers drive it.                                     *)
(* op is the last call: the constructor, prepare or processAudioSample     *)
(* with its argument, reset, a Q setter with its argument, or another      *)
(* setter.  out is the value the last call returned (0 for a void call),   *)
(* nProcessed the samples processed since the delay registers were last    *)
(* cleared, untouched whether nothing but processAudioSample has been      *)
(* called since construction.  recalcs counts (when a behaviour counts at  *)
(* all) the coefficient sets computed since the last processAudioSample or *)
(* prepare began: 0, 1, or 2 for "two or more", and designedFor holds the   *)
(* algorithm, cutoff, Q and gain that the last of them was computed for    *)
(* (nothing before the first).                                             *)

Call(name, arg) == [name |-> name, arg |-> arg]

\* recalculateCoefficients computes a coefficient set unless it returns early
Computes(f) == f.m_sampleRate > 0

Bump(n) == IF n < 2 THEN n + 1 ELSE n

\* the target values a coefficient set is computed for
Parameters(f) ==
    [ algorithm |-> f.m_filterAlgorithm, cutoff |-> f.m_freqCutoff,
      Q |-> f.m_Q, gainDb |-> f.m_gainDb ]

\* four Biquads as constructed, each then given one of the four structures
BiquadsConstructed ==
    [k \in BiquadAlgorithm |-> BiquadSetAlgorithm(NewBiquad, k)]

\* what is recorded of a call of the host
HostCall(name, sampleRate, type, frames, channels, leftData, rightData) ==
    [ name |-> name, sampleRate |-> sampleRate, type |-> type, frames |-> frames,
      channels |-> channels, leftData |-> leftData, rightData |-> rightData ]

\* wpdsp::FilterAlgorithm lastAlgorithm = wpdsp::FilterAlgorithm::kLPF2
InitialLastAlgorithm == kLPF2

\* the engine, the Biquads and the members of the plug-in as constructed,
\* but for the uninitialised flag of each AudioFilter
Constructed ==
    /\ op = Call("construct", 0)
    /\ out = 0
    /\ recalcs = 0
    /\ nProcessed = 0
    /\ untouched = TRUE
    /\ designedFor = {}
    /\ biquads = BiquadsConstructed
    /\ fed = << >>
    /\ got = [k \in BiquadAlgorithm |-> << >>]
    /\ lastAlgorithm = InitialLastAlgorithm
    /\ host = HostCall("construct", 0, 0, << >>, 0, << >>, << >>)
    /\ nFrames = 0

\* an engine by itself: the second AudioFilter of the plug-in stands aside
Init ==
    /\ \E changed \in BOOLEAN : leftFilter = NewAudioFilter(changed)
    /\ rightFilter = NewAudioFilter(TRUE)
    /\ Constructed

Prepare(counting) ==
    \E sampleRate \in SampleRates :
        /\ leftFilter' = prepare(leftFilter, sampleRate)
        /\ op' = Call("prepare", sampleRate)
        /\ recalcs' = IF ~counting THEN recalcs ELSE IF sampleRate > 0 THEN 1 ELSE 0
        /\ designedFor' = IF counting /\ sampleRate > 0
                          THEN {Parameters(leftFilter)} ELSE designedFor
        /\ out' = 0
        /\ untouched' = FALSE
        /\ nProcessed' = 0
        /\ UNCHANGED outsideEngine

Reset ==
    /\ leftFilter' = reset(leftFilter)
    /\ op' = Call("reset", 0)
    /\ out' = 0
    /\ untouched' = FALSE
    /\ nProcessed' = 0
    /\ UNCHANGED <<recalcs, designedFor, outsideEngine>>

\* a setter of AudioFilter.cpp: it recomputes nothing
Deferred(name, arg, f) ==
    /\ leftFilter' = f
    /\ op' = Call(name, arg)
    /\ out' = 0
    /\ untouched' = FALSE
    /\ UNCHANGED <<recalcs, nProcessed, designedFor, outsideEngine>>

\* a setter of AudioFilter.h: it ends in recalculateCoefficients
Eager(name, arg, f, counting) ==
    /\ leftFilter' = f
    /\ op' = Call(name, arg)
    /\ out' = 0
    /\ untouched' = FALSE
    /\ recalcs' = IF counting /\ Computes(leftFilter) THEN Bump(recalcs) ELSE recalcs
    /\ designedFor' = IF counting /\ Computes(leftFilter)
                      THEN {Parameters(f)} ELSE designedFor
    /\ UNCHANGED <<nProcessed, outsideEngine>>

SetAlgorithm == \E a \in Selectors : Deferred("set", 0, setAlgorithm(leftFilter, a))

SetCutoff == \E hz \in Cutoffs : Deferred("set", 0, setCutoff(leftFilter, hz))

SetQ == \E q \in QArguments : Deferred("setQ", q, setQ(leftFilter, q))

SetGainDb == \E db \in Gains : Deferred("set", 0, setGainDb(leftFilter, db))

SetAlgorithmInline(counting) ==
    \E a \in Selectors :
        Eager("set", 0, setAlgorithmInline(leftFilter, a), counting)

SetCutoffFrequency(counting) ==
    \E hz \in Cutoffs :
        Eager("set", 0, setCutoffFrequency(leftFilter, hz), counting)

SetQInline(counting) ==
    \E q \in QArguments : Eager("setQ", q, setQInline(leftFilter, q), counting)

SetGain(counting) ==
    \E db \in Gains : Eager("set", 0, setGain(leftFilter, db), counting)

ProcessAudioSample(counting) ==
    /\ nProcessed < MaxSamples
    /\ \E sample \in Samples :
         \E r \in processAudioSample(leftFilter, sample) :
            /\ leftFilter' = r.filter
            /\ out' = r.y
            /\ op' = Call("processAudioSample", sample)
    /\ recalcs' = IF ~counting THEN recalcs
                  ELSE IF leftFilter.m_coefficientsChanged /\ Computes(leftFilter)
                       THEN 1 ELSE 0
    /\ designedFor' = IF counting /\ leftFilter.m_coefficientsChanged
                         /\ Computes(leftFilter)
                      THEN {Parameters(leftFilter)} ELSE designedFor
    /\ nProcessed' = nProcessed + 1
    /\ UNCHANGED <<untouched, outsideEngine>>

Step(counting) ==
    \/ Prepare(counting)
    \/ Reset
    \/ SetAlgorithm
    \/ SetCutoff
    \/ SetQ
    \/ SetGainDb
    \/ SetAlgorithmInline(counting)
    \/ SetCutoffFrequency(counting)
    \/ SetQInline(counting)
    \/ SetGain(counting)
    \/ ProcessAudioSample(counting)

Next == Step(FALSE)

Spec == Init /\ [][Next]_vars

\* the same engine, with the recomputations counted
NextCounting == Step(TRUE)

SpecCounting == Init /\ [][NextCounting]_vars

-----------------------------------------------------------------------------
(* What a caller can observe of the engine *)

\* the four delay registers
Registers(f) == f.biquad.m_state

\* the active coefficients and the wet/dry pair
Active(f) == Design(f.biquad.m_coefficients, f.m_wet, f.m_dry)

\* the design the parameters of f call for.  Without a valid sample rate
\* the specification calls for pass-through.
Derived(f) ==
    IF f.m_sampleRate > 0
    THEN Designed[f.m_filterAlgorithm, f.m_freqCutoff, f.m_Q, f.m_gainDb,
                  f.m_sampleRate]
    ELSE PassThrough

\* the last call was a parameter setter, of either file
IsSetter(call) == call.name \in {"set", "setQ"}

-----------------------------------------------------------------------------
(* C1 *)

\* C1, as stated: every setter call leaves the active coefficients and the
\* wet/dry pair as they were and leaves the coefficient set marked dirty.
\* The setters of AudioFilter.h end in recalculateCoefficients and never
\* touch the flag, so this does not hold.
C1_SettersDeferRecomputation ==
    [][ IsSetter(op') =>
            /\ Active(leftFilter') = Active(leftFilter)
            /\ leftFilter'.m_coefficientsChanged ]_vars

-----------------------------------------------------------------------------
(* C2 *)

\* C2, as stated: a processAudioSample that finds the flag set leaves the
\* design its parameters call for in place and the flag cleared.  With a
\* sample rate that is not positive recalculateCoefficients returns before
\* it computes anything (see C5), and the call runs on what was there.
C2_DirtyCallRecomputes ==
    [][ (op'.name = "processAudioSample" /\ leftFilter.m_coefficientsChanged) =>
            /\ Active(leftFilter') = Derived(leftFilter)
            /\ ~leftFilter'.m_coefficientsChanged ]_vars

-----------------------------------------------------------------------------
(* C3 *)

\* C3, as stated: between the start of one processAudioSample and the start
\* of the next, at most one coefficient set is computed.  Each setter of
\* AudioFilter.h (see C1) computes one of its own.
C3_AtMostOneRecomputation == recalcs <= 1

-----------------------------------------------------------------------------
(* C4 *)

\* C4: prepare with a positive sample rate stores the rate, leaves the four
\* registers zero and the parameters alone, and installs the design of the
\* current algorithm, cutoff, Q and gain at the new rate.
C4_PrepareInstallsDesign ==
    [][ (op'.name = "prepare" /\ op'.arg > 0) =>
            /\ leftFilter'.m_sampleRate = op'.arg
            /\ Registers(leftFilter') = ZeroArray(numStates)
            /\ leftFilter'.m_filterAlgorithm = leftFilter.m_filterAlgorithm
            /\ leftFilter'.m_freqCutoff = leftFilter.m_freqCutoff
            /\ leftFilter'.m_Q = leftFilter.m_Q
            /\ leftFilter'.m_gainDb = leftFilter.m_gainDb
            /\ Active(leftFilter') =
                   Designed[leftFilter.m_filterAlgorithm, leftFilter.m_freqCutoff,
                            leftFilter.m_Q, leftFilter.m_gainDb, op'.arg] ]_vars

\* prepare with a positive rate has just run on an engine whose algorithm,
\* cutoff, Q and gain are none of the constructor's
C4_PreparedWithChangedParameters ==
    /\ op.name = "prepare"
    /\ op.arg > 0
    /\ leftFilter.m_filterAlgorithm = kNCQParaEQ
    /\ leftFilter.m_freqCutoff # DefaultFreqCutoff
    /\ leftFilter.m_Q # DefaultQ
    /\ leftFilter.m_gainDb # DefaultGainDb

-----------------------------------------------------------------------------
(* C5 *)

\* C5, as stated: prepare with a sample rate that is not positive leaves the
\* pass-through design in place, and every processAudioSample(x) returns x
\* for as long as the rate stays so.  recalculateCoefficients returns at its
\* first line instead, and what was in place stays.
C5_InvalidRatePassesThrough ==
    [][ /\ (op'.name = "prepare" /\ op'.arg <= 0) =>
                Active(leftFilter') = PassThrough
        /\ (op'.name = "processAudioSample" /\ leftFilter.m_sampleRate <= 0) =>
                out' = op'.arg ]_vars

-----------------------------------------------------------------------------
(* C6 *)

\* C6: reset zeroes the four registers and changes nothing else of the
\* engine: coefficients, wet/dry, realization structure, parameters and
\* flag are as before.
C6_ResetClearsRegistersOnly ==
    [][ op'.name = "reset" =>
            leftFilter' =
                [leftFilter EXCEPT !.biquad.m_state = ZeroArray(numStates)] ]_vars

\* reset has just run on an engine with a design of its own in place and
\* the flag set
C6_ResetWithDesignInPlace ==
    /\ op.name = "reset"
    /\ leftFilter.m_filterAlgorithm = kNCQParaEQ
    /\ Active(leftFilter) # PassThrough
    /\ leftFilter.biquad.m_coefficients # ZeroArray(numCoeffs)
    /\ leftFilter.m_coefficientsChanged

-----------------------------------------------------------------------------
(* C7 *)

\* the coefficient arrays a recomputation can hand to Biquad::setCoefficients
CoefficientArrays == {Designed[k].coeffs : k \in DOMAIN Designed}

\* C7: only prepare and reset clear the registers.  A setter call leaves
\* them as they were; so does the recomputation processAudioSample begins
\* with, so do Biquad::setCoefficients and Biquad::setAlgorithm whatever
\* they are given; and registers that held history are all zero again only
\* after prepare or reset.
C7_RegistersKeptExceptByPrepareAndReset ==
    [][ /\ IsSetter(op') => Registers(leftFilter') = Registers(leftFilter)
        /\ Registers(RefreshIfChanged(leftFilter)) = Registers(leftFilter)
        /\ \A c \in CoefficientArrays :
               BiquadSetCoefficients(leftFilter.biquad, c).m_state
                   = Registers(leftFilter)
        /\ \A a \in BiquadAlgorithm :
               BiquadSetAlgorithm(leftFilter.biquad, a).m_state
                   = Registers(leftFilter)
        /\ (/\ Registers(leftFilter) # ZeroArray(numStates)
            /\ Registers(leftFilter') = ZeroArray(numStates))
               => op'.name \in {"prepare", "reset"} ]_vars

\* a setter of AudioFilter.h has just recomputed the coefficients of an
\* engine whose registers hold the history of two samples
C7_SetterAfterSamples ==
    /\ IsSetter(op)
    /\ nProcessed = MaxSamples
    /\ ~leftFilter.m_coefficientsChanged
    /\ Active(leftFilter) = Derived(leftFilter)
    /\ leftFilter.m_filterAlgorithm = kNCQParaEQ
    /\ Registers(leftFilter)[x_z1] # 0
    /\ Registers(leftFilter)[y_z2] # 0

-----------------------------------------------------------------------------
(* C8 *)

\* C8, as stated: until something other than processAudioSample is called,
\* the engine holds the pass-through design and returns each sample as it
\* got it.  A constructed Biquad holds seven zeros, a0 among them, and the
\* constructor selects kLPF1.
C8_FreshEnginePassesThrough ==
    untouched =>
        /\ Active(leftFilter) = PassThrough
        /\ op.name = "processAudioSample" => out = op.arg

-----------------------------------------------------------------------------
(* C9 *)

-----------------------------------------------------------------------------
(* C10 *)

\* C10: the stored Q is greater than zero in every reachable state.
C10_QPositive == leftFilter.m_Q > 0

\* a Q setter has just been handed a negative Q
C10_NegativeQHanded ==
    /\ op.name = "setQ"
    /\ op.arg < 0
    /\ leftFilter.m_Q = SubstituteQ

-----------------------------------------------------------------------------
(* C11 *)

\* C11, as stated: a Q setter stores the Q it is handed when that is
\* positive and 0.707 otherwise, so that in any state handing it a Q that
\* is not positive leaves the engine as handing it 0.707 does.  The setQ of
\* AudioFilter.h stores nothing when the Q is positive: a positive request
\* is lost, and a request for 0.707 leaves whatever Q was stored.
C11_SetQStoresOrSubstitutes ==
    [][ /\ op'.name = "setQ" =>
               leftFilter'.m_Q = (IF op'.arg > 0 THEN op'.arg ELSE SubstituteQ)
        /\ \A q \in {x \in QArguments : x <= 0} :
               /\ setQ(leftFilter, q) = setQ(leftFilter, SubstituteQ)
               /\ setQInline(leftFilter, q) = setQInline(leftFilter, SubstituteQ) ]_vars

-----------------------------------------------------------------------------
(* Biquad driven directly.                                                 *)
(* biquads holds four Biquads, one per structure, that are handed the same *)
(* coefficients and fed the same samples.  The coefficients are set while  *)
(* the delay registers are clear, and stay for the run of samples that     *)
(* follows.  fed is the samples processed since the registers were last    *)
(* cleared, got the values each structure returned for them.               *)

\* whole-number coefficients, for which every product is exact
BenchCoefficients ==
    { Coeffs(A0, A1, A2, B1, B2) :
        A0 \in {One, 2 * One}, A1 \in {0, One}, A2 \in {0, One},
        B1 \in {0, -One}, B2 \in {0, -One} }

\* whole-number samples: silence, one whose outputs index inside the register
\* array, and one whose outputs do not
BenchSamples == {0, One, -2 * One}

\* one processAudioSample(sample) on each of the four: the sets of results
Lockstep(bs, sample) ==
    { r \in [BiquadAlgorithm ->
                UNION {BiquadProcessAudioSample(bs[k], sample) : k \in BiquadAlgorithm}] :
        \A k \in BiquadAlgorithm : r[k] \in BiquadProcessAudioSample(bs[k], sample) }

BiquadsSetCoefficients ==
    /\ fed = << >>
    /\ \E c \in BenchCoefficients :
         biquads' = [k \in BiquadAlgorithm |-> BiquadSetCoefficients(biquads[k], c)]
    /\ UNCHANGED <<fed, got, outsideBench>>

BiquadsReset ==
    /\ biquads' = [k \in BiquadAlgorithm |-> BiquadReset(biquads[k])]
    /\ fed' = << >>
    /\ got' = [k \in BiquadAlgorithm |-> << >>]
    /\ UNCHANGED outsideBench

BiquadsProcessAudioSample ==
    /\ Len(fed) < MaxFed
    /\ \E sample \in BenchSamples :
         \E r \in Lockstep(biquads, sample) :
            /\ biquads' = [k \in BiquadAlgorithm |-> r[k].biquad]
            /\ got' = [k \in BiquadAlgorithm |-> Append(got[k], r[k].yn)]
            /\ fed' = Append(fed, sample)
    /\ UNCHANGED outsideBench

NextBiquad ==
    \/ BiquadsSetCoefficients
    \/ BiquadsReset
    \/ BiquadsProcessAudioSample

SpecBiquad == Init /\ [][NextBiquad]_vars

\* the k-th last element of a sequence, 0 before its first
Past(seq, k) == IF Len(seq) >= k THEN seq[Len(seq) - k + 1] ELSE 0

\* y(n) = a0*x(n) + a1*x(n-1) + a2*x(n-2) - b1*y(n-1) - b2*y(n-2), for the
\* inputs xs up to x(n) and the outputs ys up to y(n-1)
ReferenceNext(c, xs, ys) ==
    Mul(c[a0], Past(xs, 1)) + Mul(c[a1], Past(xs, 2)) + Mul(c[a2], Past(xs, 3))
    - Mul(c[b1], Past(ys, 1)) - Mul(c[b2], Past(ys, 2))

ReferenceAppend(c, xs, ys) == Append(ys, ReferenceNext(c, xs, ys))

\* the outputs of that recurrence for the inputs xs
RECURSIVE Reference(_, _)
Reference(c, xs) ==
    IF xs = << >> THEN << >>
    ELSE ReferenceAppend(c, xs, Reference(c, SubSeq(xs, 1, Len(xs) - 1)))

-----------------------------------------------------------------------------
(* C12 *)

\* C12, as stated: from cleared registers, with one coefficient set and one
\* input sequence, the four structures return the same outputs (whole-number
\* coefficients and samples: exactly the same).  The direct structure stores
\* a register where its output belongs (C19) and the transposed direct
\* structure never writes the accumulator it reads (C20): each of the two
\* parts from the canonical structures.
C12_StructuresAgree == \A j, k \in BiquadAlgorithm : got[j] = got[k]

-----------------------------------------------------------------------------
(* C13 *)

\* a Biquad newly constructed and handed the structure and coefficients of b
FreshAs(b) ==
    BiquadSetCoefficients(BiquadSetAlgorithm(NewBiquad, b.m_biquadAlgorithm),
                          b.m_coefficients)

\* the output sequences b can return for the inputs xs
RECURSIVE Run(_, _)
Run(b, xs) ==
    IF xs = << >> THEN { << >> }
    ELSE UNION { { <<r.yn>> \o ys : ys \in Run(r.biquad, Tail(xs)) } :
                 r \in BiquadProcessAudioSample(b, Head(xs)) }

Impulse == <<One, 0, 0>>

-----------------------------------------------------------------------------
(* C19 *)

\* C19, as stated: the direct structure returns
\* y = a0*x + a1*x_z1 + a2*x_z2 - b1*y_z1 - b2*y_z2 and then holds x in x_z1,
\* the x before it in x_z2, the y it returned in y_z1 and the y before it in
\* y_z2, so that from cleared registers its outputs are those of the
\* reference recurrence.  `s[y_z1] = s[yn];` stores in y_z1 the register the
\* output indexes, or what lies outside the array, and not the output.
C19_DirectFormRecurrence ==
    /\ got["kDirect"] = Reference(biquads["kDirect"].m_coefficients, fed)
    /\ fed # << >> =>
          biquads["kDirect"].m_state =
              [i \in 0 .. numStates - 1 |->
                  CASE i = x_z1 -> Past(fed, 1)
                    [] i = x_z2 -> Past(fed, 2)
                    [] i = y_z1 -> Past(got["kDirect"], 1)
                    [] i = y_z2 -> Past(got["kDirect"], 2)]

-----------------------------------------------------------------------------
(* C20 *)

\* C20, as stated: the transposed direct structure computes w = x + x_z1 and
\* y = a0*w + y_z1 and updates its registers, y_z1 among them, so that from
\* cleared registers its outputs are those of the reference recurrence.  No
\* statement of the branch writes y_z1 or y_z2, and the a1 and a2 terms go
\* into the registers that feed w.
C20_TransposedDirectRecurrence ==
    got["kTransposeDirect"] = Reference(biquads["kTransposeDirect"].m_coefficients, fed)

-----------------------------------------------------------------------------
(* C21 *)

\* the registers of a Biquad as <<x_z1, x_z2, y_z1, y_z2>>
RegistersOf(b) == <<b.m_state[x_z1], b.m_state[x_z2], b.m_state[y_z1], b.m_state[y_z2]>>

\* C21: the canonical structure computes w = x - b1*x_z1 - b2*x_z2 and
\* y = a0*w + a1*x_z1 + a2*x_z2, then x_z2 := x_z1 and x_z1 := w; the
\* transposed canonical structure computes y = a0*x + x_z1, then
\* x_z1 := a1*x - b1*y + x_z2 and x_z2 := a2*x - b2*y.  Both leave y_z1 and
\* y_z2 as they were, and from cleared registers each returns the outputs of
\* the reference recurrence.
C21_CanonicalFormsRecurrence ==
    /\ [](\A k \in {"kCanonical", "kTransposeCanonical"} :
            got[k] = Reference(biquads[k].m_coefficients, fed))
    /\ [][ Len(fed') = Len(fed) + 1 =>
            /\ LET c == biquads["kCanonical"].m_coefficients
                   s == biquads["kCanonical"].m_state
                   x == Past(fed', 1)
                   w == x - Mul(c[b1], s[x_z1]) - Mul(c[b2], s[x_z2])
               IN  /\ Past(got'["kCanonical"], 1) =
                          Mul(c[a0], w) + Mul(c[a1], s[x_z1]) + Mul(c[a2], s[x_z2])
                   /\ RegistersOf(biquads'["kCanonical"]) =
                          <<w, s[x_z1], s[y_z1], s[y_z2]>>
            /\ LET c == biquads["kTransposeCanonical"].m_coefficients
                   s == biquads["kTransposeCanonical"].m_state
                   x == Past(fed', 1)
                   y == Mul(c[a0], x) + s[x_z1]
               IN  /\ Past(got'["kTransposeCanonical"], 1) = y
                   /\ RegistersOf(biquads'["kTransposeCanonical"]) =
                          <<Mul(c[a1], x) - Mul(c[b1], y) + s[x_z2],
                            Mul(c[a2], x) - Mul(c[b2], y), s[y_z1], s[y_z2]>> ]_vars

\* both canonical structures have run a recursive filter to the bound and
\* hold a history in both of their registers
C21_CanonicalHistory ==
    /\ Len(fed) = MaxFed
    /\ \A k \in {"kCanonical", "kTransposeCanonical"} :
         /\ biquads[k].m_coefficients[b1] # 0
         /\ biquads[k].m_coefficients[a2] # 0
         /\ biquads[k].m_state[x_z1] # 0
         /\ biquads[k].m_state[x_z2] # 0
         /\ Past(got[k], 1) # Past(got[k], 2)

-----------------------------------------------------------------------------
(* The plug-in: leftFilter and rightFilter as the host drives them through *)
(* prepareToPlay and processBlock.  A frame is one pass of the loop of     *)
(* processBlock: the smoothed cutoff, Q and gain of that pass and the      *)
(* sample of each channel.  host is the last call with its arguments and   *)
(* the samples written back to the buffer, nFrames the frames processed    *)
(* since the last prepareToPlay.                                           *)

\* the TYPE parameter: its default and the choice that follows it
HostTypes == {kLPF2, kHPF2}

\* the cutoff, Q and gain parameters at rest at their defaults
HostCutoffs == {DefaultFreqCutoff}

HostQs == {DefaultQ}

HostGains == {DefaultGainDb}

\* getTotalNumInputChannels(): mono or stereo
ChannelCounts == {1, 2}

\* the sample rate the host plays at
HostSampleRates == {r \in SampleRates : r > 0}

\* the left channel carries either sample, the right channel the same one
\* throughout
LeftSamples == Samples

RightSamples == {One}

\* a mono buffer has no right channel: 0 stands in its place
Frames(channels) ==
    [newCutoff : HostCutoffs, newQ : HostQs, newGain : HostGains,
     left : LeftSamples, right : IF channels > 1 THEN RightSamples ELSE {0}]

\* the buffers of at most n frames
Blocks(n, channels) == UNION { [1 .. k -> Frames(channels)] : k \in 0 .. n }

\* if (currentAlgorithm != lastAlgorithm) f.setAlgorithm(currentAlgorithm)
SelectAlgorithm(f, currentAlgorithm, last) ==
    IF currentAlgorithm # last THEN setAlgorithm(f, currentAlgorithm) ELSE f

\* f.setCutoff(newCutoff); f.setQ(newQ); f.setGainDb(newGain)
UpdateParameters(f, newCutoff, newQ, newGain) ==
    setGainDb(setQ(setCutoff(f, newCutoff), newQ), newGain)

\* the two filters, and the samples written back so far
Channels(l, r, leftData, rightData) ==
    [leftFilter |-> l, rightFilter |-> r, leftData |-> leftData, rightData |-> rightData]

\* the filters and buffers after the two processAudioSample calls of a pass
Written(p, l, r) ==
    Channels(l.filter, r.filter, Append(p.leftData, l.y), Append(p.rightData, r.y))

\* the filters and buffers after the one processAudioSample call of a mono pass
WrittenLeft(p, l, r) == Channels(l.filter, r, Append(p.leftData, l.y), p.rightData)

\* a pass whose right channel ran on the delay registers of the left filter
LoopBodySharingRegisters(p, frame, stereo) ==
    { Written(p, l, r) :
        l \in processAudioSample(UpdateParameters(p.leftFilter, frame.newCutoff,
                                                  frame.newQ, frame.newGain), frame.left),
        r \in processAudioSample(
                  [UpdateParameters(p.rightFilter, frame.newCutoff, frame.newQ, frame.newGain)
                      EXCEPT !.biquad.m_state = p.leftFilter.biquad.m_state],
                  frame.right) }

\* one pass of the loop of processBlock
LoopBody(p, frame, stereo) ==
    IF stereo
    THEN { Written(p, l, r) :
             l \in processAudioSample(UpdateParameters(p.leftFilter, frame.newCutoff,
                                                       frame.newQ, frame.newGain), frame.left),
             r \in processAudioSample(UpdateParameters(p.rightFilter, frame.newCutoff,
                                                       frame.newQ, frame.newGain), frame.right) }
    ELSE { WrittenLeft(p, l, UpdateParameters(p.rightFilter, frame.newCutoff,
                                              frame.newQ, frame.newGain)) :
             l \in processAudioSample(UpdateParameters(p.leftFilter, frame.newCutoff,
                                                       frame.newQ, frame.newGain), frame.left) }

\* the loop of processBlock over the frames of the buffer
RECURSIVE Loop(_, _, _)
Loop(ps, frames, stereo) ==
    IF frames = << >> THEN ps
    ELSE Loop(UNION { LoopBody(p, Head(frames), stereo) : p \in ps }, Tail(frames), stereo)

\* AudioPluginAudioProcessor::processBlock: the sets of filters and buffers
\* afterwards
processBlock(l, r, last, type, frames, channels) ==
    Loop({ Channels(SelectAlgorithm(l, type, last), SelectAlgorithm(r, type, last),
                    << >>, << >>) },
         frames, channels > 1)

InitPlugin ==
    /\ \E changed \in BOOLEAN : leftFilter = NewAudioFilter(changed)
    /\ \E changed \in BOOLEAN : rightFilter = NewAudioFilter(changed)
    /\ Constructed

PrepareToPlay ==
    /\ \E sampleRate \in HostSampleRates :
         /\ leftFilter' = prepare(leftFilter, sampleRate)
         /\ rightFilter' = prepare(rightFilter, sampleRate)
         /\ host' = HostCall("prepareToPlay", sampleRate, 0, << >>, 0, << >>, << >>)
    /\ nFrames' = 0
    /\ UNCHANGED <<lastAlgorithm, op, out, recalcs, nProcessed, untouched,
                   designedFor, benchVars>>

ProcessBlock ==
    /\ \E type \in HostTypes, channels \in ChannelCounts :
       \E frames \in Blocks(MaxFrames - nFrames, channels) :
         /\ \E p \in processBlock(leftFilter, rightFilter, lastAlgorithm,
                                  type, frames, channels) :
               /\ leftFilter' = p.leftFilter
               /\ rightFilter' = p.rightFilter
               /\ host' = HostCall("processBlock", 0, type, frames, channels,
                                   p.leftData, p.rightData)
         /\ lastAlgorithm' = type
         /\ nFrames' = nFrames + Len(frames)
    /\ UNCHANGED <<op, out, recalcs, nProcessed, untouched, designedFor, benchVars>>

NextPlugin ==
    \/ PrepareToPlay
    \/ ProcessBlock

SpecPlugin == InitPlugin /\ [][NextPlugin]_vars

-----------------------------------------------------------------------------
(* C14 *)

\* what a pass of the loop hands one channel: the parameters and its sample
ChannelInputs(frames, right) ==
    [i \in DOMAIN frames |->
        [newCutoff |-> frames[i].newCutoff, newQ |-> frames[i].newQ,
         newGain |-> frames[i].newGain,
         sample |-> IF right THEN frames[i].right ELSE frames[i].left]]

\* one filter with the samples written back to its channel so far
Channel(f, data) == [filter |-> f, data |-> data]

\* the calls a pass of the loop makes on one filter, on that filter alone
ChannelPass(c, in, processed) ==
    IF processed
    THEN { Channel(r.filter, Append(c.data, r.y)) :
             r \in processAudioSample(UpdateParameters(c.filter, in.newCutoff,
                                                       in.newQ, in.newGain), in.sample) }
    ELSE { Channel(UpdateParameters(c.filter, in.newCutoff, in.newQ, in.newGain), c.data) }

RECURSIVE ChannelLoop(_, _, _)
ChannelLoop(cs, inputs, processed) ==
    IF inputs = << >> THEN cs
    ELSE ChannelLoop(UNION { ChannelPass(c, Head(inputs), processed) : c \in cs },
                     Tail(inputs), processed)

\* the calls a processBlock makes on one filter, on that filter alone
ChannelAlone(f, last, type, inputs, processed) ==
    ChannelLoop({ Channel(SelectAlgorithm(f, type, last), << >>) }, inputs, processed)

\* C14: the two filters share no state.  What a call of the host leaves in
\* rightFilter (delay registers, coefficients, parameters, dirty flag) and
\* writes to the right channel is what the calls made on rightFilter give
\* from rightFilter as it was, the parameters and the right channel's samples,
\* whatever leftFilter holds and is fed; a mono block leaves the registers
\* and coefficients of rightFilter as they were.  The same holds of
\* leftFilter.
C14_ChannelsIndependent ==
    [][ /\ host'.name = "processBlock" =>
            /\ Channel(rightFilter', host'.rightData) \in
                   ChannelAlone(rightFilter, lastAlgorithm, host'.type,
                                ChannelInputs(host'.frames, TRUE), host'.channels > 1)
            /\ Channel(leftFilter', host'.leftData) \in
                   ChannelAlone(leftFilter, lastAlgorithm, host'.type,
                                ChannelInputs(host'.frames, FALSE), TRUE)
            /\ host'.channels = 1 =>
                   /\ Registers(rightFilter') = Registers(rightFilter)
                   /\ Active(rightFilter') = Active(rightFilter)
        /\ host'.name = "prepareToPlay" =>
            /\ rightFilter' = prepare(rightFilter, host'.sampleRate)
            /\ leftFilter' = prepare(leftFilter, host'.sampleRate) ]_vars

\* a stereo block of two frames has been processed, the channels fed
\* different samples with delay registers already holding different histories
C14_StereoBlockProcessed ==
    /\ host.name = "processBlock"
    /\ host.channels = 2
    /\ Len(host.frames) = 2
    /\ host.frames[1].left # host.frames[1].right
    /\ Registers(leftFilter) # Registers(rightFilter)
    /\ leftFilter.m_sampleRate > 0

-----------------------------------------------------------------------------
(* The designer put to every algorithm.  An engine is prepared, handed a    *)
(* cutoff, a Q and a gain, and handed an algorithm through the             *)
(* setAlgorithm of AudioFilter.h, which computes its coefficients at once; *)
(* it is then handed another algorithm and a sample, as processBlock does. *)

\* prepare, setCutoff, setQ, setGainDb, and the setAlgorithm of AudioFilter.h
Requested(f, alg, fc, Q, gainDb, fs) ==
    setAlgorithmInline(
        setGainDb(setQ(setCutoff(prepare(f, fs), fc), Q), gainDb), alg)

InitDesign ==
    /\ \E changed \in BOOLEAN, alg \in DesignSelectors, fc \in DesignCutoffs,
          Q \in DesignQs, gainDb \in DesignGains, fs \in DesignSampleRates :
         leftFilter = Requested(NewAudioFilter(changed), alg, fc, Q, gainDb, fs)
    /\ rightFilter = NewAudioFilter(TRUE)
    /\ op = Call("set", 0)
    /\ out = 0
    /\ recalcs = 0
    /\ nProcessed = 0
    /\ untouched = FALSE
    /\ designedFor = {}
    /\ biquads = BiquadsConstructed
    /\ fed = << >>
    /\ got = [k \in BiquadAlgorithm |-> << >>]
    /\ lastAlgorithm = InitialLastAlgorithm
    /\ host = HostCall("construct", 0, 0, << >>, 0, << >>, << >>)
    /\ nFrames = 0

\* setAlgorithm(newAlgorithm) and then processAudioSample(sample)
Redesign ==
    /\ nProcessed < MaxRedesigns
    /\ \E newAlgorithm \in DesignSelectors, sample \in Samples :
         \E r \in processAudioSample(setAlgorithm(leftFilter, newAlgorithm), sample) :
            /\ leftFilter' = r.filter
            /\ out' = r.y
            /\ op' = Call("processAudioSample", sample)
    /\ nProcessed' = nProcessed + 1
    /\ untouched' = FALSE
    /\ UNCHANGED <<recalcs, designedFor, outsideEngine>>

NextDesign == Redesign

SpecDesign == InitDesign /\ [][NextDesign]_vars

-----------------------------------------------------------------------------
(* C15 *)

\* the algorithms whose case assigns m_wet and m_dry
CorrectingAlgorithms == {kLowShelf, kHiShelf, kNCQParaEQ}

\* the wet/dry pair the algorithm of f calls for
WetDryCalledFor(f) ==
    IF f.m_filterAlgorithm \in CorrectingAlgorithms
    THEN <<GainLinear(f.m_gainDb) - One, One>>
    ELSE <<One, 0>>

-----------------------------------------------------------------------------
(* C17 *)

\* the angles the case of alg hands to tan (the Linkwitz-Riley cases, which
\* hand it M_PI*m_freqCutoff / m_sampleRate, have no arm in the model)
TangentArguments(alg, fc, Q, fs) ==
    CASE alg \in {kBPF2, kBSF2, kButterLPF2, kButterHPF2, kCQParaEQ, kAPF1} ->
            {HalfThetaC(fc, fs)}
      [] alg \in {kLowShelf, kHiShelf} -> {Div(ThetaC(fc, fs), 2)}
      [] alg \in {kButterBPF2, kButterBSF2, kAPF2} -> {ClampedBandAngle(fc, Q, fs)}
      [] alg = kNCQParaEQ ->
            {IF Quot(ThetaC(fc, fs), 2 * Q) >= ClampAngle
             THEN ClampAngle ELSE Quot(ThetaC(fc, fs), 2 * Q)}
      [] OTHER -> {}

\* C17, as stated: no case evaluates a tangent at pi/2 or beyond, for any
\* algorithm, cutoff, Q and positive sample rate.  Only the bandwidth angles
\* (Butterworth band pass and band stop, second-order all-pass) and the angle
\* of the non-constant-Q parametric EQ are clamped; the band pass, band stop,
\* Butterworth low and high pass, shelving, constant-Q parametric EQ and
\* first-order all-pass cases evaluate tan(pi*fc/fs) as it comes, which is
\* pi/2 or more whenever the cutoff is half the sample rate or more.
C17_TangentArgumentsClamped ==
    \A angle \in TangentArguments(leftFilter.m_filterAlgorithm, leftFilter.m_freqCutoff,
                                  leftFilter.m_Q, leftFilter.m_sampleRate) :
        angle < HalfPi

-----------------------------------------------------------------------------
(* C18 *)

\* C18, as stated: processAudioSample computes a coefficient set only if the
\* algorithm, cutoff, Q or gain differs from the one the last coefficient set
\* was computed for.  The setters of AudioFilter.cpp raise
\* m_coefficientsChanged without comparing what they are handed with what is
\* stored, so a setter called with the value already stored makes the next
\* processAudioSample compute the same coefficients again.
C18_RecomputedOnlyOnChange ==
    [][ (op'.name = "processAudioSample" /\ recalcs' = 1) =>
            designedFor # {Parameters(leftFilter)} ]_vars

-----------------------------------------------------------------------------
(* C22 *)

\* C22, as stated: after every processBlock call the design algorithm of both
\* channel filters is the one the TYPE parameter selected for that block, the
\* first block after construction with TYPE at its default included.  The
\* filters are constructed with kLPF1 and lastAlgorithm with kLPF2, the
\* default of TYPE: the first block finds currentAlgorithm == lastAlgorithm
\* and never hands the selection to the filters.
C22_FiltersFollowType ==
    [][ host'.name = "processBlock" =>
            /\ leftFilter'.m_filterAlgorithm = host'.type
            /\ rightFilter'.m_filterAlgorithm = host'.type ]_vars

-----------------------------------------------------------------------------
(* Two engines driven side by side through the two sets of setters: every  *)
(* call reaches leftFilter through the setter of AudioFilter.cpp and        *)
(* rightFilter through the setter of AudioFilter.h, with the same argument; *)
(* prepare and processAudioSample are called on both.  op is the last call, *)
(* out the value leftFilter returned.                                       *)

\* one call made on both engines
Both(name, arg, deferred, eager) ==
    /\ leftFilter' = deferred
    /\ rightFilter' = eager
    /\ op' = Call(name, arg)
    /\ out' = 0
    /\ untouched' = FALSE
    /\ UNCHANGED <<recalcs, nProcessed, designedFor, benchVars,
                   lastAlgorithm, host, nFrames>>

BothPrepare ==
    \E sampleRate \in SampleRates :
        /\ leftFilter' = prepare(leftFilter, sampleRate)
        /\ rightFilter' = prepare(rightFilter, sampleRate)
        /\ op' = Call("prepare", sampleRate)
        /\ out' = 0
        /\ untouched' = FALSE
        /\ nProcessed' = 0
        /\ UNCHANGED <<recalcs, designedFor, benchVars, lastAlgorithm, host, nFrames>>

BothSetAlgorithm ==
    \E a \in Selectors :
        Both("set", 0, setAlgorithm(leftFilter, a), setAlgorithmInline(rightFilter, a))

BothSetCutoff ==
    \E hz \in Cutoffs :
        Both("set", 0, setCutoff(leftFilter, hz), setCutoffFrequency(rightFilter, hz))

BothSetQ ==
    \E q \in QArguments :
        Both("setQ", q, setQ(leftFilter, q), setQInline(rightFilter, q))

BothSetGain ==
    \E db \in Gains :
        Both("set", 0, setGainDb(leftFilter, db), setGain(rightFilter, db))

BothProcessAudioSample ==
    /\ nProcessed < MaxSamples
    /\ \E sample \in Samples :
         \E l \in processAudioSample(leftFilter, sample),
            r \in processAudioSample(rightFilter, sample) :
            /\ leftFilter' = l.filter
            /\ rightFilter' = r.filter
            /\ out' = l.y
            /\ op' = Call("processAudioSample", sample)
    /\ nProcessed' = nProcessed + 1
    /\ UNCHANGED <<untouched, recalcs, designedFor, benchVars,
                   lastAlgorithm, host, nFrames>>

NextPaths ==
    \/ BothPrepare
    \/ BothSetAlgorithm
    \/ BothSetCutoff
    \/ BothSetQ
    \/ BothSetGain
    \/ BothProcessAudioSample

SpecPaths == InitPlugin /\ [][NextPaths]_vars

-----------------------------------------------------------------------------
(* C23 *)

\* C23, as stated: after any run of setter calls, an engine driven through
\* the setters of AudioFilter.cpp and one driven through the setters of
\* AudioFilter.h hold, when processAudioSample evaluates a sample, the same
\* stored parameters, the same active coefficients and the same wet/dry
\* pair, and return the same output.  The setQ of AudioFilter.h never stores
\* a positive Q (C11): after setQ(2.0) the two engines hold different Q and
\* design different filters.
C23_PathsDifferOnlyInTiming ==
    [][ op'.name = "processAudioSample" =>
            /\ Parameters(leftFilter') = Parameters(rightFilter')
            /\ Active(leftFilter') = Active(rightFilter')
            /\ \E r \in processAudioSample(rightFilter, op'.arg) :
                   /\ r.filter = rightFilter'
                   /\ r.y = out' ]_vars

=============================================================================
